---- MODULE Spec2Model ----
(***************************************************************************)
(* A model of CTDopts (src/CTDopts.py): the parameter tree of              *)
(* ArgumentItem / ArgumentGroup objects, the restriction check functions,  *)
(* the CTD document codec (xml_node / generate_ctd_tree / read_ini) and    *)
(* the command-line bridge CTDopts.parse_args.                             *)
(*                                                                         *)
(* A Python str is a sequence of one-character strings.  A Python value is *)
(* a record tagged with its Python type (field t).                         *)
(***************************************************************************)
EXTENDS Integers, Sequences, FiniteSets, TLC

(***************************************************************************)
(* Python values                                                           *)
(***************************************************************************)
NoneV == [t |-> "none"]
IntV(n) == [t |-> "int", v |-> n]
FloatV(d) == [t |-> "float", v |-> d]
StrV(s) == [t |-> "str", v |-> s]
BoolV(b) == [t |-> "bool", v |-> b]
ListV(xs) == [t |-> "list", v |-> xs]

\* The outcome of a call that may raise: a returned value or an exception.
Ret(x) == [ok |-> TRUE, v |-> x]
Raise(e) == [ok |-> FALSE, exc |-> e]

(***************************************************************************)
(* Strings                                                                 *)
(***************************************************************************)
DigitChars == <<"0", "1", "2", "3", "4", "5", "6", "7", "8", "9">>

IsDigit(c) == \E i \in 1..10 : DigitChars[i] = c

DigitVal(c) == (CHOOSE i \in 1..10 : DigitChars[i] = c) - 1

AllDigits(s) == \A i \in 1..Len(s) : IsDigit(s[i])

\* str.endswith
EndsWith(s, suffix) ==
    /\ Len(suffix) <= Len(s)
    /\ SubSeq(s, Len(s) - Len(suffix) + 1, Len(s)) = suffix

\* sep.join(parts)
RECURSIVE Join(_, _)
Join(sep, parts) ==
    IF Len(parts) = 0 THEN <<>>
    ELSE IF Len(parts) = 1 THEN parts[1]
    ELSE parts[1] \o sep \o Join(sep, Tail(parts))

\* The decimal numeral of a natural number.
RECURSIVE NatToStr(_)
NatToStr(n) ==
    IF n < 10 THEN <<DigitChars[n + 1]>>
    ELSE NatToStr(n \div 10) \o <<DigitChars[(n % 10) + 1]>>

\* The natural number a non-empty digit string denotes.
RECURSIVE DigitsToNat(_)
DigitsToNat(s) ==
    IF Len(s) = 0 THEN 0
    ELSE 10 * DigitsToNat(SubSeq(s, 1, Len(s) - 1)) + DigitVal(s[Len(s)])

\* s without its leading sign character, and whether the sign is a minus.
Unsigned(s) == IF Len(s) > 0 /\ s[1] \in {"-", "+"} THEN Tail(s) ELSE s
IsNegative(s) == Len(s) > 0 /\ s[1] = "-"

(***************************************************************************)
(* Floats.  A float is the decimal numeral Python's repr gives it: a sign, *)
(* the integer part, and the digits of the fraction without trailing       *)
(* zeros.                                                                  *)
(***************************************************************************)
Dec(neg, ip, fp) == [neg |-> neg, ip |-> ip, fp |-> fp]

RECURSIVE StripTrailingZeros(_)
StripTrailingZeros(ds) ==
    IF Len(ds) > 0 /\ ds[Len(ds)] = 0
    THEN StripTrailingZeros(SubSeq(ds, 1, Len(ds) - 1))
    ELSE ds

RECURSIVE LeadingZeros(_)
LeadingZeros(ds) ==
    IF Len(ds) > 0 /\ ds[1] = 0 THEN 1 + LeadingZeros(Tail(ds)) ELSE 0

\* ds + 1 in the last place: the digits and the carry out of the first place.
RECURSIVE IncDigits(_)
IncDigits(ds) ==
    IF Len(ds) = 0 THEN [ds |-> <<>>, carry |-> 1]
    ELSE IF ds[Len(ds)] < 9
         THEN [ds |-> [ds EXCEPT ![Len(ds)] = @ + 1], carry |-> 0]
         ELSE LET r == IncDigits(SubSeq(ds, 1, Len(ds) - 1))
              IN  [ds |-> Append(r.ds, 0), carry |-> r.carry]

\* d rounded to k digits of fraction (half up on the decimal numeral).
RoundDec(d, k) ==
    IF Len(d.fp) <= k THEN d
    ELSE LET kept == SubSeq(d.fp, 1, k)
         IN  IF d.fp[k + 1] < 5
             THEN Dec(d.neg, d.ip, StripTrailingZeros(kept))
             ELSE LET r == IncDigits(kept)
                  IN  Dec(d.neg, d.ip + r.carry, StripTrailingZeros(r.ds))

\* Python 2's float.__str__ is '%.12g': 12 significant digits.
PyFloatStrPrecision == 12

DigitString(ds) == [i \in 1..Len(ds) |-> DigitChars[ds[i] + 1]]

\* str(float), for a float that '%.12g' prints in fixed notation.
FloatToStr(d) ==
    LET k == IF d.ip > 0
             THEN PyFloatStrPrecision - Len(NatToStr(d.ip))
             ELSE PyFloatStrPrecision + LeadingZeros(d.fp)
        Fixed(r) == (IF r.neg THEN <<"-">> ELSE <<>>)
                    \o NatToStr(r.ip) \o <<".">>
                    \o (IF Len(r.fp) = 0 THEN <<"0">> ELSE DigitString(r.fp))
    IN  Fixed(RoundDec(d, IF k < 0 THEN 0 ELSE k))

IntToStr(n) == IF n < 0 THEN <<"-">> \o NatToStr(0 - n) ELSE NatToStr(n)

IntToDec(n) == IF n < 0 THEN Dec(TRUE, 0 - n, <<>>) ELSE Dec(FALSE, n, <<>>)

\* The position of the first "." of s, or 0.
DotPos(s) ==
    IF \E i \in 1..Len(s) : s[i] = "."
    THEN CHOOSE i \in 1..Len(s) : s[i] = "." /\ \A j \in 1..(i - 1) : s[j] # "."
    ELSE 0

\* int(s) of a str: an optional sign and at least one digit, else ValueError.
StrToInt(s) ==
    LET u == Unsigned(s)
    IN  IF Len(u) > 0 /\ AllDigits(u)
        THEN Ret(IntV(IF IsNegative(s) THEN 0 - DigitsToNat(u) ELSE DigitsToNat(u)))
        ELSE Raise("ValueError")

\* float(s) of a str in plain decimal notation, else ValueError.
StrToFloat(s) ==
    LET u == Unsigned(s)
        p == DotPos(u)
        Numeral(ipart, fpart) ==
            IF /\ Len(ipart) + Len(fpart) > 0
               /\ AllDigits(ipart)
               /\ AllDigits(fpart)
            THEN Ret(FloatV(Dec(IsNegative(s) /\ (DigitsToNat(ipart) > 0
                                                  \/ \E i \in 1..Len(fpart) : fpart[i] # "0"),
                                DigitsToNat(ipart),
                                StripTrailingZeros([i \in 1..Len(fpart) |-> DigitVal(fpart[i])]))))
            ELSE Raise("ValueError")
    IN  Numeral(IF p = 0 THEN u ELSE SubSeq(u, 1, p - 1),
                IF p = 0 THEN <<>> ELSE SubSeq(u, p + 1, Len(u)))

\* str(x)
PyStr(x) ==
    CASE x.t = "str" -> x.v
      [] x.t = "int" -> IntToStr(x.v)
      [] x.t = "float" -> FloatToStr(x.v)
      [] x.t = "bool" -> IF x.v THEN <<"T", "r", "u", "e">> ELSE <<"F", "a", "l", "s", "e">>
      [] x.t = "none" -> <<"N", "o", "n", "e">>

\* Truth value of a Python value.
Truthy(x) ==
    CASE x.t = "bool" -> x.v
      [] x.t = "int" -> x.v # 0
      [] x.t = "float" -> x.v.ip # 0 \/ Len(x.v.fp) # 0
      [] x.t = "str" -> Len(x.v) # 0
      [] x.t = "list" -> Len(x.v) # 0
      [] x.t = "none" -> FALSE

\* type(x) for the four parameter types int, float, str, bool.
PyCast(type, x) ==
    CASE type = "str" -> Ret(StrV(PyStr(x)))
      [] type = "bool" -> Ret(BoolV(Truthy(x)))
      [] type = "int" ->
            (CASE x.t = "int" -> Ret(x)
               [] x.t = "bool" -> Ret(IntV(IF x.v THEN 1 ELSE 0))
               [] x.t = "float" -> Ret(IntV(IF x.v.neg THEN 0 - x.v.ip ELSE x.v.ip))
               [] x.t = "str" -> StrToInt(x.v)
               [] OTHER -> Raise("TypeError"))
      [] type = "float" ->
            (CASE x.t = "float" -> Ret(x)
               [] x.t = "int" -> Ret(FloatV(IntToDec(x.v)))
               [] x.t = "bool" -> Ret(FloatV(IntToDec(IF x.v THEN 1 ELSE 0)))
               [] x.t = "str" -> StrToFloat(x.v)
               [] OTHER -> Raise("TypeError"))

\* The decimal of a number (int or float).
NumDec(x) == IF x.t = "int" THEN IntToDec(x.v) ELSE x.v

\* Lexicographic order on digit sequences read as fractions 0.d1d2...
RECURSIVE FracLess(_, _)
FracLess(a, b) ==
    IF Len(b) = 0 THEN FALSE
    ELSE IF Len(a) = 0 THEN TRUE
    ELSE IF a[1] # b[1] THEN a[1] < b[1]
    ELSE FracLess(Tail(a), Tail(b))

\* |a| < |b|
MagLess(a, b) == a.ip < b.ip \/ (a.ip = b.ip /\ FracLess(a.fp, b.fp))

IsZeroDec(a) == a.ip = 0 /\ Len(a.fp) = 0

DecLess(a, b) ==
    IF IsZeroDec(a) /\ IsZeroDec(b) THEN FALSE
    ELSE IF a.neg # b.neg THEN a.neg
    ELSE IF a.neg THEN MagLess(b, a) ELSE MagLess(a, b)

\* x < y on numbers
NumLess(x, y) == DecLess(NumDec(x), NumDec(y))

(***************************************************************************)
(* State                                                                   *)
(***************************************************************************)
VARIABLES
    heap,       \* the ArgumentItem and ArgumentGroup objects, by identity
    tool,       \* the CTDopts object's attributes
    fs,         \* the files of the current directory: name -> document
    proc,       \* the process: status, exit code, stream capture, atexit
    warnings,   \* the warnings.warn calls of the latest operation, in order
    last        \* the latest operation: its name, inputs and outcome

vars == <<heap, tool, fs, proc, warnings, last>>

\* fmt % args
Warning(fmt, args) == [fmt |-> fmt, args |-> args]

(***************************************************************************)
(* _NumericRange                                                           *)
(***************************************************************************)
NumericRange(param_name, n_type, n_min, n_max) ==
    [kind |-> "_NumericRange", param_name |-> param_name, n_type |-> n_type,
     n_min |-> n_min, n_max |-> n_max]

\* is_in_range without the check of the maximum.
is_in_range_min_only(self, value) ==
    LET Checked(cast) ==
            IF cast.ok /\ self.n_min # NoneV /\ NumLess(cast.v, self.n_min)
            THEN [res |-> cast,
                  warned |-> <<Warning("Parameter %s value %s is below minimum %s",
                                       <<self.param_name, PyStr(cast.v), PyStr(self.n_min)>>)>>]
            ELSE [res |-> cast, warned |-> <<>>]
    IN  Checked(PyCast(self.n_type, value))

\* The function argparse_type returns, applied to value: the value returned
\* (or the exception of the cast) and the warnings issued, in order.
is_in_range(self, value) ==
    LET Checked(cast, n_min, n_max) ==
            IF cast.ok
            THEN [res |-> cast,
                  warned |->
                     (IF self.n_min # NoneV /\ NumLess(cast.v, self.n_min)
                      THEN <<Warning("Parameter %s value %s is below minimum %s",
                                     <<self.param_name, PyStr(cast.v), n_min>>)>>
                      ELSE <<>>)
                     \o (IF self.n_max # NoneV /\ NumLess(self.n_max, cast.v)
                         THEN <<Warning("Parameter %s value %s is above maximum %s",
                                        <<self.param_name, PyStr(cast.v), n_max>>)>>
                         ELSE <<>>)]
            ELSE [res |-> cast, warned |-> <<>>]
    IN  Checked(PyCast(self.n_type, value), PyStr(self.n_min), PyStr(self.n_max))

ctd_range_string(self) ==
    (IF self.n_min # NoneV THEN PyStr(self.n_min) ELSE <<>>)
    \o <<":">>
    \o (IF self.n_max # NoneV THEN PyStr(self.n_max) ELSE <<>>)

(***************************************************************************)
(* _FileFormat                                                             *)
(***************************************************************************)
FileFormat(param_name, formats) ==
    [kind |-> "_FileFormat", param_name |-> param_name, formats |-> formats]

\* The for loop of legal_formats over formats[i..]: TRUE when some format
\* matches (the loop returns), FALSE when the loop runs out (the else clause).
RECURSIVE FormatLoop(_, _, _)
FormatLoop(formats, i, filename) ==
    IF i > Len(formats) THEN FALSE
    ELSE IF EndsWith(filename, <<".">> \o formats[i]) THEN TRUE
    ELSE FormatLoop(formats, i + 1, filename)

\* legal_formats looking at the last component of the file name only.
legal_formats_last_suffix(self, filename) ==
    IF \E i \in 1..Len(self.formats) :
          /\ EndsWith(filename, <<".">> \o self.formats[i])
          /\ "." \notin {self.formats[i][k] : k \in 1..Len(self.formats[i])}
    THEN [res |-> Ret(StrV(filename)), warned |-> <<>>]
    ELSE [res |-> Ret(StrV(filename)),
          warned |-> <<Warning("Parameter %s's file extension not in allowed list. Allowed: %s. Actual: %s",
                               <<self.param_name, Join(<<"/">>, self.formats), filename>>)>>]

legal_formats(self, filename) ==
    IF FormatLoop(self.formats, 1, filename)
    THEN [res |-> Ret(StrV(filename)), warned |-> <<>>]
    ELSE [res |-> Ret(StrV(filename)),
          warned |-> <<Warning("Parameter %s's file extension not in allowed list. Allowed: %s. Actual: %s",
                               <<self.param_name, Join(<<"/">>, self.formats), filename>>)>>]

ctd_format_string(self) ==
    Join(<<",">>, [i \in 1..Len(self.formats) |-> <<"*", ".">> \o self.formats[i]])

(***************************************************************************)
(* ArgumentItem and ArgumentGroup.  heap[id] is the object with identity   *)
(* id; a parent reference is an identity, 0 for None.  A group's           *)
(* arguments (an OrderedDict) is a sequence of <<name, identity>> entries. *)
(***************************************************************************)
\* An attribute that has not been set (hasattr is false).
Unset == [t |-> "unset"]

\* kwargs.get(key, dflt)
Get(kwargs, key, dflt) == IF key \in DOMAIN kwargs THEN kwargs[key] ELSE dflt

\* map(type, xs): the casts of the elements, or the first exception.
RECURSIVE MapCast(_, _)
MapCast(type, xs) ==
    LET Cons(h, r) == IF ~h.ok THEN h
                      ELSE IF ~r.ok THEN r
                      ELSE Ret(<<h.v>> \o r.v)
    IN  IF Len(xs) = 0 THEN Ret(<<>>)
        ELSE Cons(PyCast(type, xs[1]), MapCast(type, Tail(xs)))

\* map(type, x) as a list value; a str is iterated by character.
MapType(type, x) ==
    LET Listed(r) == IF r.ok THEN Ret(ListV(r.v)) ELSE r
    IN  CASE x.t = "list" -> Listed(MapCast(type, x.v))
          [] x.t = "str" -> Listed(MapCast(type, [i \in 1..Len(x.v) |-> StrV(<<x.v[i]>>)]))
          [] OTHER -> Raise("TypeError")

\* A constructor that leaves the required keyword of a flag as declared.
required_as_declared(type, required) == required

\* self.required after the coercion of boolean flags.
self_required(type, required) == IF type = "bool" THEN FALSE ELSE required

\* A constructor that leaves the default of a flag as declared.
default_as_declared(type, default) == default

\* self.default after the coercion of boolean flags.
self_default(type, default) == IF type = "bool" THEN BoolV(FALSE) ELSE default

\* ArgumentItem.__init__: the new object, or the exception it raises.
ArgumentItem(name, parent, kwargs) ==
    LET type == Get(kwargs, "type", "str")
        is_list == Get(kwargs, "is_list", FALSE)
        default == Get(kwargs, "default", NoneV)
        choices == Get(kwargs, "choices", NoneV)
        required == self_required(type, Get(kwargs, "required", FALSE))
        restrictions ==
            IF "num_range" \in DOMAIN kwargs
            THEN NumericRange(name, type, kwargs.num_range[1], kwargs.num_range[2])
            ELSE IF "file_formats" \in DOMAIN kwargs
            THEN FileFormat(name, kwargs.file_formats)
            ELSE NoneV
        Checked(checked_default, checked_choices) ==
            IF type = "bool" /\ is_list # FALSE
            THEN Raise("AssertionError: Boolean flag can't be a list type")
            ELSE IF required /\ checked_default # NoneV
            THEN Raise("AssertionError: Required field has default value")
            ELSE IF ~required /\ checked_default = NoneV
            THEN Raise("AssertionError: Optional field has no default value")
            ELSE Ret([kind |-> "item", name |-> name, parent |-> parent, type |-> type,
                      tags |-> Get(kwargs, "tags", <<>>), required |-> required,
                      description |-> Get(kwargs, "description", <<>>),
                      is_list |-> is_list, default |-> checked_default,
                      choices |-> checked_choices, restrictions |-> restrictions,
                      call_value |-> Unset])
        Cast(cast_default, cast_choices) ==
            IF ~cast_default.ok THEN cast_default
            ELSE IF ~cast_choices.ok THEN cast_choices
            ELSE Checked(self_default(type, cast_default.v), cast_choices.v)
    IN  Cast(IF default = NoneV THEN Ret(NoneV)
             ELSE IF is_list THEN MapType(type, default)
             ELSE PyCast(type, default),
             IF choices = NoneV THEN Ret(NoneV) ELSE MapType(type, choices))

\* ArgumentGroup.__init__
ArgumentGroup(name, parent, description) ==
    [kind |-> "group", name |-> name, parent |-> parent,
     description |-> description, arguments |-> <<>>]

\* name in self.arguments
HasKey(arguments, name) == \E i \in 1..Len(arguments) : arguments[i][1] = name

\* self.arguments[name]
Lookup(arguments, name) ==
    arguments[CHOOSE i \in 1..Len(arguments) : arguments[i][1] = name][2]

\* An assignment that moves an existing key to the end.
SetKeyAtEnd(arguments, name, id) ==
    SelectSeq(arguments, LAMBDA e : e[1] # name) \o << <<name, id>> >>

\* self.arguments[name] = id: an existing key keeps its place.
SetKey(arguments, name, id) ==
    IF HasKey(arguments, name)
    THEN [i \in 1..Len(arguments) |->
            IF arguments[i][1] = name THEN <<name, id>> ELSE arguments[i]]
    ELSE Append(arguments, <<name, id>>)

\* The message is passed to warnings.warn unformatted: it has no arguments.
DuplicateWarning == Warning("Name %s in subsection %s defined twice! Overriding first", <<>>)

\* ArgumentGroup.get_group_lineage
RECURSIVE get_group_lineage(_, _)
get_group_lineage(h, g) ==
    IF h[g].parent = 0 THEN <<>>
    ELSE Append(get_group_lineage(h, h[g].parent), h[g].name)

\* A lineage that leaves the groups out: the name of the item alone.
own_name(h, id) == h[id].name

\* ArgumentItem.param_commandline_name
param_commandline_name(h, id) ==
    Join(<<":">>, Append(get_group_lineage(h, h[id].parent), h[id].name))

(***************************************************************************)
(* The CTD document.  An XML element is a record of its tag, its           *)
(* attributes (attribute name -> str), its child elements and its text.    *)
(* Writing a document to a file and parsing it back (tostring, minidom,    *)
(* ElementTree.parse) keeps tags, attributes and child elements.           *)
(***************************************************************************)
Element(tag, attrib, children) ==
    [tag |-> tag, attrib |-> attrib, children |-> children, text |-> <<>>]

AllStr(xs) == \A i \in 1..Len(xs) : xs[i].t = "str"

\* ','.join(xs) of a list of values: TypeError unless every element is a str.
JoinValues(sep, xs) ==
    IF AllStr(xs) THEN Ret(Join(sep, [i \in 1..Len(xs) |-> xs[i].v]))
    ELSE Raise("TypeError")

TypeString(type) ==
    CASE type = "int" -> "int"
      [] type = "float" -> "float"
      [] type = "str" -> "string"
      [] type = "bool" -> "boolean"

TrueString == <<"t", "r", "u", "e">>
FalseString == <<"f", "a", "l", "s", "e">>

\* The value an item is serialized with.
\* xml_node taking the declared default whatever was stored.
declared_default(self) == self.default

ItemValue(self) == IF self.call_value # Unset THEN self.call_value ELSE self.default

\* ArgumentItem.xml_node: the element, or the exception raised.
ItemXmlNode(self) ==
    LET value == ItemValue(self)
        base == [name |-> self.name,
                 type |-> TypeString(self.type),
                 description |-> self.description,
                 tags |-> Join(<<",">>, self.tags)]
        joined == IF self.choices # NoneV THEN JoinValues(<<",">>, self.choices.v)
                  ELSE Ret(<<>>)
        Restricted(valued) ==
            IF self.choices # NoneV
            THEN [restrictions |-> joined.v] @@ valued
            ELSE IF self.restrictions # NoneV /\ self.restrictions.kind = "_NumericRange"
            THEN [restrictions |-> ctd_range_string(self.restrictions)] @@ valued
            ELSE IF self.restrictions # NoneV /\ self.restrictions.kind = "_FileFormat"
            THEN [supported_formats |-> ctd_format_string(self.restrictions)] @@ valued
            ELSE valued
        Node(attribs) ==
            IF self.is_list
            THEN Ret(Element("ITEMLIST", attribs,
                     IF value = NoneV THEN <<>>
                     ELSE [i \in 1..Len(value.v) |->
                             Element("LISTITEM", [value |-> PyStr(value.v[i])], <<>>)]))
            ELSE Ret(Element("ITEM", attribs, <<>>))
    IN  IF ~joined.ok THEN joined
        ELSE Node(Restricted(
                 IF self.is_list THEN base
                 ELSE IF self.type = "bool"
                 THEN [value |-> IF Truthy(value) THEN TrueString ELSE FalseString] @@ base
                 ELSE [value |-> IF value = NoneV THEN <<>> ELSE PyStr(value)] @@ base))

\* The xml_node of every entry of arguments from position i on, in order:
\* the elements, or the first exception.
RECURSIVE ChildNodes(_, _, _)
RECURSIVE xml_node(_, _)
ChildNodes(h, arguments, i) ==
    LET Cons(first, rest) == IF ~first.ok THEN first
                             ELSE IF ~rest.ok THEN rest
                             ELSE Ret(<<first.v>> \o rest.v)
    IN  IF i > Len(arguments) THEN Ret(<<>>)
        ELSE Cons(xml_node(h, arguments[i][2]), ChildNodes(h, arguments, i + 1))

\* xml_node of the object id: ArgumentItem.xml_node or ArgumentGroup.xml_node.
xml_node(h, id) ==
    LET Node(kids) ==
            IF ~kids.ok THEN kids
            ELSE Ret(Element("NODE",
                             [name |-> h[id].name, description |-> h[id].description],
                             kids.v))
    IN  IF h[id].kind = "item" THEN ItemXmlNode(h[id])
        ELSE Node(ChildNodes(h, h[id].arguments, 1))

(***************************************************************************)
(* CTDopts: document generation, writing and loading                       *)
(***************************************************************************)
\* The children of the tool element that come from optional_attribs.
RECURSIVE OptElements(_, _)
OptElements(optional_attribs, keys) ==
    IF Len(keys) = 0 THEN <<>>
    ELSE (IF keys[1] \in DOMAIN optional_attribs
          THEN <<[Element(keys[1], <<>>, <<>>) EXCEPT !.text = optional_attribs[keys[1]]]>>
          ELSE <<>>)
         \o OptElements(optional_attribs, Tail(keys))

\* The time datetime.now() returns, as an ISO string.
Now == <<"n", "o", "w">>

VersionDescription == "Version of the tool that generated this parameters file."

\* CTDopts.generate_ctd_tree: the CTDopts object with tool_xml_node (and,
\* with logging, log_node) set, or the exception raised.  tool_xml_node
\* keeps the tool element without its logs child; with_logging tells that
\* self.log_node is the log element of this tree.
generate_ctd_tree(h, self, with_logging) ==
    LET tool_attribs ==
            (IF "docurl" \in DOMAIN self.optional_attribs
             THEN [docurl |-> self.optional_attribs.docurl] ELSE <<>>)
            @@ (IF "category" \in DOMAIN self.optional_attribs
                THEN [category |-> self.optional_attribs.category] ELSE <<>>)
            @@ [version |-> self.version, name |-> self.name]
        version_item == Element("ITEM",
                                [name |-> <<"v", "e", "r", "s", "i", "o", "n">>,
                                 value |-> self.version, type |-> "string",
                                 description |-> VersionDescription,
                                 tags |-> <<"a", "d", "v", "a", "n", "c", "e", "d">>],
                                <<>>)
        logged == IF with_logging
                  THEN [self EXCEPT !.log_node =
                            Element("log", [executionTimeStart |-> Now], <<>>)]
                  ELSE self
        Tool(args_top_node) ==
            Element("tool", tool_attribs,
                    OptElements(self.optional_attribs,
                                <<"manual", "description", "executableName",
                                  "executablePath">>)
                    \o <<Element("PARAMETERS", [version |-> <<"1", ".", "6", ".", "2">>],
                                 <<Element("NODE",
                                           [name |-> self.name,
                                            description |->
                                               Get(self.optional_attribs, "description", <<>>)],
                                           <<version_item, args_top_node>>)>>)>>)
        Tree(args_top_node) ==
            IF ~args_top_node.ok
            THEN [ok |-> FALSE, exc |-> args_top_node.exc, self |-> logged]
            ELSE [ok |-> TRUE,
                  self |-> [logged EXCEPT !.tool_xml_node =
                                [with_logging |-> with_logging,
                                 elem |-> Tool(args_top_node.v)]]]
    IN  Tree(xml_node(h, self.main_node))

\* The document tostring(self.tool_xml_node) serializes: the tool element,
\* with the logs element holding self.log_node when the tree has one.
ToolDocument(self) ==
    LET t == self.tool_xml_node
        n == Len(t.elem.children)
    IN  IF t.with_logging
        THEN [t.elem EXCEPT !.children =
                 SubSeq(t.elem.children, 1, n - 1)
                 \o <<Element("logs", <<>>, <<self.log_node>>)>>
                 \o <<t.elem.children[n]>>]
        ELSE t.elem

\* The files are those of the current directory, which has no
\* subdirectory: open(name, 'w') raises IOError for a name with a slash.
InMissingDirectory(name) == \E i \in 1..Len(name) : name[i] = "/"

\* CTDopts.write_ctd: the object and the files afterwards, or the exception.
write_ctd(h, self, files) ==
    LET Written(gen) ==
            IF ~gen.ok
            THEN [ok |-> FALSE, exc |-> gen.exc, self |-> gen.self, files |-> files]
            ELSE IF self.out_ctd_file = Unset
            THEN [ok |-> FALSE, exc |-> "AttributeError", self |-> gen.self, files |-> files]
            ELSE IF InMissingDirectory(self.out_ctd_file.v)
            THEN [ok |-> FALSE, exc |-> "IOError", self |-> gen.self, files |-> files]
            ELSE [ok |-> TRUE, self |-> gen.self,
                  files |-> [f \in DOMAIN files \cup {self.out_ctd_file.v} |->
                                IF f = self.out_ctd_file.v THEN ToolDocument(gen.self)
                                ELSE files[f]]]
    IN  Written(IF self.tool_xml_node = Unset
                THEN generate_ctd_tree(h, self, FALSE)
                ELSE [ok |-> TRUE, self |-> self])

\* element.find(tag): the first child with the tag, or None.
Find(element, tag) ==
    IF \E i \in 1..Len(element.children) : element.children[i].tag = tag
    THEN element.children[CHOOSE i \in 1..Len(element.children) :
                              /\ element.children[i].tag = tag
                              /\ \A j \in 1..(i - 1) : element.children[j].tag # tag]
    ELSE NoneV

\* CTDopts._register_parameter, on the table ini_params: the table afterwards.
RECURSIVE RegisterChildren(_, _, _, _)
RECURSIVE register_parameter(_, _, _, _)
RegisterChildren(ini_params, children, i, base_name) ==
    IF i > Len(children) THEN ini_params
    ELSE RegisterChildren(register_parameter(ini_params, children[i], base_name, FALSE),
                          children, i + 1, base_name)

register_parameter(ini_params, element, base_name, is_root) ==
    LET colon == IF is_root THEN <<>> ELSE <<":">>
        full_name == base_name \o colon \o element.attrib.name
    IN  CASE element.tag = "ITEM" ->
                IF element.attrib.type = "boolean"
                THEN IF element.attrib.value = TrueString
                     THEN SetKey(ini_params, full_name, <<BoolV(TRUE)>>)
                     ELSE ini_params
                ELSE SetKey(ini_params, full_name, <<StrV(element.attrib.value)>>)
          [] element.tag = "ITEMLIST" ->
                SetKey(ini_params, full_name,
                       [i \in 1..Len(element.children) |->
                           StrV(element.children[i].attrib.value)])
          [] element.tag = "NODE" ->
                RegisterChildren(ini_params, element.children, 1, full_name)
          [] OTHER -> ini_params

\* The loop of read_ini over the children of the parameters node.
RECURSIVE RegisterRoots(_, _, _)
RegisterRoots(ini_params, children, i) ==
    IF i > Len(children) THEN ini_params
    ELSE RegisterRoots(register_parameter(ini_params, children[i], <<"-">>, TRUE),
                       children, i + 1)

\* The loop of read_ini that builds command_line from ini_params[i..].
\* The command line of read_ini without the test of len(values).
RECURSIVE CommandLineOfAll(_, _)
CommandLineOfAll(ini_params, i) ==
    IF i > Len(ini_params) THEN <<>>
    ELSE <<ini_params[i][1]>>
         \o (IF ini_params[i][2] # <<BoolV(TRUE)>>
             THEN [k \in 1..Len(ini_params[i][2]) |-> ini_params[i][2][k].v]
             ELSE <<>>)
         \o CommandLineOfAll(ini_params, i + 1)

RECURSIVE CommandLine(_, _)
CommandLine(ini_params, i) ==
    IF i > Len(ini_params) THEN <<>>
    ELSE LET arg_name == ini_params[i][1]
             values == ini_params[i][2]
         IN  (IF Len(values) # 0
              THEN <<arg_name>>
                   \o (IF values # <<BoolV(TRUE)>>
                       THEN [k \in 1..Len(values) |-> values[k].v]
                       ELSE <<>>)
              ELSE <<>>)
             \o CommandLine(ini_params, i + 1)

\* CTDopts.read_ini: ini_params and the command line, or the exception.
read_ini(files, ini_file) ==
    LET Loaded(ini_params) ==
            [ok |-> TRUE, ini_params |-> ini_params,
             command_line |-> CommandLine(ini_params, 1)]
        Parameters(parameters) ==
            IF parameters = NoneV THEN Raise("AttributeError")
            ELSE Loaded(RegisterRoots(<<>>, parameters.children, 1))
        Outer(outer) == Parameters(IF outer = NoneV THEN NoneV ELSE Find(outer, "NODE"))
        Root(param_root) == Outer(IF param_root = NoneV THEN NoneV
                                  ELSE Find(param_root, "NODE"))
    IN  IF ini_file \notin DOMAIN files THEN Raise("IOError")
        ELSE Root(IF files[ini_file].tag = "PARAMETERS" THEN files[ini_file]
                  ELSE Find(files[ini_file], "PARAMETERS"))

(***************************************************************************)
(* argparse, as parse_args uses it: options named by one option string,    *)
(* nargs None / '+' / 0 (store_true), type functions, choices, required    *)
(* options and defaults.  A command line is a sequence of strs.            *)
(***************************************************************************)
\* ArgumentItem.argparse_call: the keywords given to add_argument.
argparse_call(self) ==
    [nargs |-> IF self.type = "bool" THEN "0" ELSE IF self.is_list THEN "+" ELSE "None",
     required |-> self.required,
     type |-> IF self.restrictions = NoneV
              THEN [kind |-> "type", type |-> self.type]
              ELSE self.restrictions,
     choices |-> self.choices,
     default |-> self.default,
     action |-> IF self.type = "bool" THEN "store_true" ELSE "store"]

\* s.lstrip('-')
RECURSIVE LStripDash(_)
LStripDash(s) == IF Len(s) > 0 /\ s[1] = "-" THEN LStripDash(Tail(s)) ELSE s

\* The dest argparse derives from an option string: the option string
\* without its leading dashes, every other '-' replaced by '_'.
Dest(option_string) ==
    LET d == LStripDash(option_string)
    IN  [i \in 1..Len(d) |-> IF d[i] = "-" THEN "_" ELSE d[i]]

\* The items below the group g in the order append_argument visits them.
RECURSIVE ItemsOf(_, _)
RECURSIVE ItemsFrom(_, _, _)
ItemsFrom(h, arguments, i) ==
    IF i > Len(arguments) THEN <<>>
    ELSE ItemsOf(h, arguments[i][2]) \o ItemsFrom(h, arguments, i + 1)

ItemsOf(h, id) ==
    IF h[id].kind = "item" THEN <<id>> ELSE ItemsFrom(h, h[id].arguments, 1)

\* ArgumentItem.append_argument: the action add_argument registers.
append_argument(h, id) ==
    LET option_string == <<"-">> \o param_commandline_name(h, id)
    IN  [option_string |-> option_string, dest |-> Dest(option_string), item |-> id]
        @@ argparse_call(h[id])

\* ArgumentGroup.append_argument on the root: the parser's actions in order,
\* or the exception add_argument raises (an option string registered twice,
\* an option string that leaves no dest).
RECURSIVE AddArguments(_, _, _, _)
AddArguments(h, items, i, actions) ==
    LET Added(a) ==
            IF Len(a.dest) = 0 THEN Raise("ValueError")
            ELSE IF \E k \in 1..Len(actions) : actions[k].option_string = a.option_string
            THEN Raise("ArgumentError")
            ELSE AddArguments(h, items, i + 1, Append(actions, a))
    IN  IF i > Len(items) THEN Ret(actions)
        ELSE Added(append_argument(h, items[i]))

RegularParser(h, root) == AddArguments(h, ItemsOf(h, root), 1, <<>>)

\* '^-\d+$|^-\d*\.\d+$'
IsNegativeNumber(s) ==
    /\ Len(s) > 1
    /\ s[1] = "-"
    /\ LET u == Tail(s)
           p == DotPos(u)
       IN  \/ AllDigits(u)
           \/ /\ p > 0
              /\ p < Len(u)
              /\ AllDigits(SubSeq(u, 1, p - 1))
              /\ AllDigits(SubSeq(u, p + 1, Len(u)))

StartsWith(s, prefix) == Len(prefix) <= Len(s) /\ SubSeq(s, 1, Len(prefix)) = prefix

\* The actions of which the option string starts with arg (an abbreviation).
PrefixMatches(actions, arg) ==
    {k \in 1..Len(actions) : StartsWith(actions[k].option_string, arg)}

\* _parse_optional: what the parser takes the argument string for: "A", an
\* argument; "O", the option of action k (0: no known option); "E", an
\* ambiguous abbreviation.
ParseOptional(actions, arg) ==
    IF Len(arg) = 0 \/ arg[1] # "-" THEN [kind |-> "A"]
    ELSE IF \E k \in 1..Len(actions) : actions[k].option_string = arg
    THEN [kind |-> "O", k |-> CHOOSE k \in 1..Len(actions) : actions[k].option_string = arg]
    ELSE IF Len(arg) = 1 THEN [kind |-> "A"]
    ELSE IF Cardinality(PrefixMatches(actions, arg)) > 1 THEN [kind |-> "E"]
    ELSE IF Cardinality(PrefixMatches(actions, arg)) = 1
    THEN [kind |-> "O", k |-> CHOOSE k \in PrefixMatches(actions, arg) : TRUE]
    ELSE IF IsNegativeNumber(arg)
            /\ ~\E k \in 1..Len(actions) : IsNegativeNumber(actions[k].option_string)
    THEN [kind |-> "A"]
    ELSE [kind |-> "O", k |-> 0]

\* The number of consecutive arguments ("A") of args from position i on.
RECURSIVE CountArgs(_, _, _)
CountArgs(actions, args, i) ==
    IF i > Len(args) \/ ParseOptional(actions, args[i]).kind # "A" THEN 0
    ELSE 1 + CountArgs(actions, args, i + 1)

\* The type function of an action, applied to an argument string: the value
\* (or the exception) and the warnings issued.
TypeFunction(action, arg_string) ==
    IF action.type.kind = "type"
    THEN [res |-> PyCast(action.type.type, StrV(arg_string)), warned |-> <<>>]
    ELSE IF action.type.kind = "_NumericRange"
    THEN is_in_range(action.type, StrV(arg_string))
    ELSE legal_formats(action.type, arg_string)

\* [_get_value(action, v) for v in arg_strings]: the values or the failure,
\* and the warnings issued until then.
RECURSIVE GetValues(_, _)
GetValues(action, arg_strings) ==
    LET Cons(first, rest) ==
            IF ~first.res.ok THEN [ok |-> FALSE, v |-> <<>>, warned |-> first.warned]
            ELSE [ok |-> rest.ok, v |-> <<first.res.v>> \o rest.v,
                  warned |-> first.warned \o rest.warned]
    IN  IF Len(arg_strings) = 0 THEN [ok |-> TRUE, v |-> <<>>, warned |-> <<>>]
        ELSE Cons(TypeFunction(action, arg_strings[1]),
                  GetValues(action, Tail(arg_strings)))

\* _check_value for every value: each is one of the choices, if there are any.
CheckValues(action, values) ==
    \/ action.choices = NoneV
    \/ \A i \in 1..Len(values) :
          \E j \in 1..Len(action.choices.v) : action.choices.v[j] = values[i]

\* The namespace before parsing: every dest with the default of the first
\* action registered for it.
InitialNamespace(actions) ==
    [d \in {actions[k].dest : k \in 1..Len(actions)} |->
        actions[CHOOSE k \in 1..Len(actions) :
                    /\ actions[k].dest = d
                    /\ \A j \in 1..(k - 1) : actions[j].dest # d].default]

\* The defaults that are strs go through the type function when their option
\* was not seen: the warnings this issues, over the actions from k on.
RECURSIVE DefaultWarnings(_, _, _)
DefaultWarnings(actions, seen, k) ==
    IF k > Len(actions) THEN <<>>
    ELSE (IF k \notin seen /\ actions[k].default.t = "str"
          THEN TypeFunction(actions[k], actions[k].default.v).warned
          ELSE <<>>)
         \o DefaultWarnings(actions, seen, k + 1)

\* The loop of parse_known_args from position i on.  st is the state of the
\* parse: the namespace ns, the actions seen, the argument strings left over
\* (extras), the warnings issued, and ok: FALSE when the parser called error
\* (SystemExit with status 2).
RECURSIVE ConsumeArgs(_, _, _, _)
ConsumeArgs(actions, args, i, st) ==
    LET Stored(k, a, take, got) ==
            IF ~got.ok \/ ~CheckValues(a, got.v)
            THEN [st EXCEPT !.ok = FALSE, !.warned = @ \o got.warned]
            ELSE ConsumeArgs(actions, args, i + 1 + take,
                     [st EXCEPT !.seen = @ \cup {k},
                                !.warned = @ \o got.warned,
                                !.ns = [@ EXCEPT ![a.dest] =
                                          IF a.nargs = "0" THEN BoolV(TRUE)
                                          ELSE IF a.nargs = "None" THEN got.v[1]
                                          ELSE ListV(got.v)]])
        Taken(k, a, n, take) ==
            IF a.nargs \in {"None", "+"} /\ n = 0
            THEN [st EXCEPT !.ok = FALSE]
            ELSE Stored(k, a, take, GetValues(a, SubSeq(args, i + 1, i + take)))
        Counted(k, a, n) ==
            Taken(k, a, n, IF a.nargs = "0" THEN 0
                           ELSE IF a.nargs = "None" THEN 1
                           ELSE n)
        Step(o) ==
            IF o.kind = "A" \/ o.k = 0
            THEN ConsumeArgs(actions, args, i + 1,
                             [st EXCEPT !.extras = Append(@, args[i])])
            ELSE Counted(o.k, actions[o.k], CountArgs(actions, args, i + 1))
    IN  IF i > Len(args)
        THEN IF \E k \in 1..Len(actions) : k \notin st.seen /\ actions[k].required
             THEN [st EXCEPT !.ok = FALSE]
             ELSE [st EXCEPT !.warned = @ \o DefaultWarnings(actions, st.seen, 1)]
        ELSE Step(ParseOptional(actions, args[i]))

\* ArgumentParser.parse_known_args(args)
ParseKnownArgs(actions, args) ==
    IF \E i \in 1..Len(args) : ParseOptional(actions, args[i]).kind = "E"
    THEN [ok |-> FALSE, ns |-> InitialNamespace(actions), seen |-> {}, extras |-> <<>>,
          warned |-> <<>>]
    ELSE ConsumeArgs(actions, args, 1,
                     [ok |-> TRUE, ns |-> InitialNamespace(actions), seen |-> {},
                      extras |-> <<>>, warned |-> <<>>])

\* ArgumentParser.parse_args(args): an error when arguments are left over.
ParseArgs(actions, args) ==
    LET Known(r) == IF r.ok /\ Len(r.extras) > 0 THEN [r EXCEPT !.ok = FALSE] ELSE r
    IN  Known(ParseKnownArgs(actions, args))

(***************************************************************************)
(* ArgumentGroup.add, add_group and store_call_value                       *)
(***************************************************************************)
\* ArgumentGroup.add on the group g: the heap afterwards, the warnings
\* issued and the exception raised, if any.  The new item gets the next
\* identity.
add(h, g, name, kwargs) ==
    LET warned == IF HasKey(h[g].arguments, name) THEN <<DuplicateWarning>> ELSE <<>>
        Assigned(item) ==
            IF ~item.ok
            THEN [heap |-> h, warned |-> warned, res |-> item]
            ELSE [heap |-> Append([h EXCEPT ![g].arguments = SetKey(@, name, Len(h) + 1)],
                                  item.v),
                  warned |-> warned, res |-> Ret(NoneV)]
    IN  Assigned(ArgumentItem(name, g, kwargs))

\* ArgumentGroup.add_group on the group g; it returns the new group.
add_group(h, g, name, description) ==
    [heap |-> Append([h EXCEPT ![g].arguments = SetKey(@, name, Len(h) + 1)],
                     ArgumentGroup(name, g, description)),
     warned |-> IF HasKey(h[g].arguments, name) THEN <<DuplicateWarning>> ELSE <<>>,
     res |-> Ret(Len(h) + 1)]

\* store_call_value of the object id (ArgumentItem.store_call_value or
\* ArgumentGroup.store_call_value): the heap afterwards.
RECURSIVE StoreChildren(_, _, _, _)
RECURSIVE store_call_value(_, _, _)
StoreChildren(h, arguments, i, call_dict) ==
    IF i > Len(arguments) THEN h
    ELSE StoreChildren(store_call_value(h, arguments[i][2], call_dict),
                       arguments, i + 1, call_dict)

store_call_value(h, id, call_dict) ==
    IF h[id].kind = "item"
    THEN LET cl_name == param_commandline_name(h, id)
         IN  IF cl_name \in DOMAIN call_dict
             THEN [h EXCEPT ![id].call_value = call_dict[cl_name]]
             ELSE h
    ELSE StoreChildren(h, h[id].arguments, 1, call_dict)

(***************************************************************************)
(* CTDopts                                                                 *)
(***************************************************************************)
MainNodeName == <<"1">>

MainNodeDescription(name) == <<"I", "n", "s", "t", "a", "n", "c", "e", " ", "\"", "1", "\"", " ", "s", "e", "c", "t", "i", "o", "n", " ", "f", "o", "r", " ">> \o name

\* CTDopts.__init__: the object; its main_node is the object 1 of the heap.
CTDopts(name, version, kwargs) ==
    [name |-> name, version |-> version, optional_attribs |-> kwargs, main_node |-> 1,
     tool_xml_node |-> Unset, log_node |-> Unset, out_ctd_file |-> Unset,
     already_finalized |-> Unset, stdout_stream |-> Unset, stderr_stream |-> Unset,
     ini_params |-> Unset]

\* The heap CTDopts.__init__ leaves: the main node alone.
MainNodeHeap(name) == <<ArgumentGroup(MainNodeName, 0, MainNodeDescription(name))>>

\* A StringIO object holding the lines written to it.
StringIO(lines) == [t |-> "StringIO", v |-> lines]

\* A line printed to sys.stdout: it reaches self.stdout_stream too when
\* sys.stdout is the _MultiStream parse_args installs.
Printed(self, p, fmt, args) ==
    IF p.captured
    THEN [self EXCEPT !.stdout_stream = StringIO(Append(@.v, Warning(fmt, args)))]
    ELSE self

\* The text finalize_log logs for a stream argument: getvalue() of a
\* StringIO, the argument itself otherwise.
StreamData(stream) == stream.v

\* CTDopts.finalize_log: the object, the files, and the exception if any.
finalize_log(h, self, files, p, stdout, stderr, exit_status) ==
    LET out == IF stdout # NoneV THEN stdout
               ELSE IF self.stdout_stream # Unset THEN self.stdout_stream
               ELSE StrV(<<>>)
        err == IF stderr # NoneV THEN stderr
               ELSE IF self.stderr_stream # Unset THEN self.stderr_stream
               ELSE StrV(<<>>)
        stopped == [executionTimeStop |-> Now] @@ self.log_node.attrib
        attrib == IF exit_status # NoneV
                  THEN [executionStatus |-> PyStr(exit_status)] @@ stopped
                  ELSE stopped
        logged == [self EXCEPT !.log_node =
                     [@ EXCEPT !.attrib = attrib,
                               !.children = @ \o
                                  <<[Element("executionErrors", <<>>, <<>>)
                                       EXCEPT !.text = StreamData(err)],
                                    [Element("executionMessage", <<>>, <<>>)
                                       EXCEPT !.text = StreamData(out)]>>]]
        Finalized(w) ==
            IF ~w.ok THEN w
            ELSE [ok |-> TRUE,
                  self |-> [Printed(w.self, p,
                               "Parameter and log container %s written to current directory successfully.",
                               <<w.self.out_ctd_file.v>>)
                            EXCEPT !.already_finalized = BoolV(TRUE)],
                  files |-> w.files]
    IN  IF self.already_finalized # Unset
        THEN [ok |-> TRUE, self |-> self, files |-> files]
        ELSE IF self.log_node = Unset
        THEN [ok |-> FALSE, exc |-> "AttributeError", self |-> self, files |-> files]
        ELSE Finalized(write_ctd(h, logged, files))

\* The option strings of the directives.
WriteToolCtd == <<"-", "-", "w", "r", "i", "t", "e", "_", "t", "o", "o", "l", "_", "c", "t", "d">>
InputCtd == <<"-", "-", "i", "n", "p", "u", "t", "_", "c", "t", "d">>
WriteParamCtd == <<"-", "-", "w", "r", "i", "t", "e", "_", "p", "a", "r", "a", "m", "_", "c", "t", "d">>
LogOutput == <<"-", "-", "l", "o", "g", "_", "o", "u", "t", "p", "u", "t">>
LogStdStreams == <<"-", "-", "l", "o", "g", "_", "s", "t", "d", "_", "s", "t", "r", "e", "a", "m", "s">>

Directive(option_string, nargs, default) ==
    [option_string |-> option_string, dest |-> Dest(option_string), item |-> 0,
     nargs |-> nargs, required |-> FALSE, type |-> [kind |-> "type", type |-> "str"],
     choices |-> NoneV, default |-> default,
     action |-> IF nargs = "0" THEN "store_true" ELSE "store"]

\* The preparser of parse_args.
PreParser ==
    <<Directive(WriteToolCtd, "*", NoneV),
      Directive(InputCtd, "None", NoneV),
      Directive(WriteParamCtd, "None", NoneV),
      Directive(LogOutput, "0", BoolV(FALSE)),
      Directive(LogStdStreams, "0", BoolV(FALSE))>>

CtdSuffix == <<".", "c", "t", "d">>

\* How a call ends: it returns, it raises SystemExit (sys.exit, or argparse's
\* error with status 2), or it raises another exception.
Returned(ns) == [kind |-> "return", ns |-> ns]
Exited(code) == [kind |-> "exit", code |-> code]
Raised(exc) == [kind |-> "raise", exc |-> exc]

\* The branch of parse_args after a successful parse: the call values are
\* stored and, with --write_param_ctd, the document is generated (and,
\* without --log_output, written).
StoreAndSave(h, self, files, p, directives, parsed) ==
    LET write_param_ctd == directives[Dest(WriteParamCtd)]
        log_output == directives[Dest(LogOutput)]
        log_std_streams == directives[Dest(LogStdStreams)]
        Written(base, w) ==
            IF ~w.ok
            THEN [base EXCEPT !.self = w.self, !.out = Raised(w.exc)]
            ELSE [base EXCEPT
                    !.self = Printed(w.self, p,
                                "Parameter container %s written to current directory successfully.",
                                <<w.self.out_ctd_file.v>>),
                    !.files = w.files]
        Generated(base, gen) ==
            IF ~gen.ok
            THEN [base EXCEPT !.self = gen.self, !.out = Raised(gen.exc)]
            ELSE IF Truthy(log_output)
            THEN IF Truthy(log_std_streams)
                 THEN [base EXCEPT
                         !.self = [gen.self EXCEPT !.stdout_stream = StringIO(<<>>),
                                                   !.stderr_stream = StringIO(<<>>)],
                         !.p = [p EXCEPT !.captured = TRUE, !.atexit = @ + 1]]
                 ELSE [base EXCEPT !.self = gen.self]
            ELSE Written(base, write_ctd(base.heap, gen.self, files))
        Stored(base) ==
            IF ~Truthy(write_param_ctd) THEN base
            ELSE Generated(base,
                     generate_ctd_tree(base.heap,
                                       [self EXCEPT !.out_ctd_file = write_param_ctd],
                                       Truthy(log_output)))
    IN  Stored([heap |-> store_call_value(h, self.main_node, parsed.ns),
                self |-> self, files |-> files, p |-> p,
                warned |-> parsed.warned, out |-> Returned(parsed.ns)])

\* The else branch of parse_args: the regular command line.
RegularCommandLine(h, self, files, p, directives, rest) ==
    LET input_ctd == directives[Dest(InputCtd)]
        base == [heap |-> h, self |-> self, files |-> files, p |-> p, warned |-> <<>>]
        Parsed(loaded, parsed) ==
            IF ~parsed.ok
            THEN [out |-> Exited(2)]
                 @@ [base EXCEPT !.self = loaded, !.warned = parsed.warned]
            ELSE StoreAndSave(h, loaded, files, p, directives, parsed)
        Populated(loaded, final_args, regular_parser) ==
            IF ~regular_parser.ok
            THEN [out |-> Raised(regular_parser.exc)] @@ [base EXCEPT !.self = loaded]
            ELSE Parsed(loaded, ParseArgs(regular_parser.v, final_args))
        Loaded(ini) ==
            IF ~ini.ok THEN [out |-> Raised(ini.exc)] @@ base
            ELSE Populated(IF input_ctd # NoneV
                           THEN [self EXCEPT !.ini_params = [t |-> "dict", v |-> ini.ini_params]]
                           ELSE self,
                           ini.command_line \o rest,
                           RegularParser(h, self.main_node))
    IN  Loaded(IF input_ctd # NoneV THEN read_ini(files, input_ctd.v)
               ELSE [ok |-> TRUE, command_line |-> <<>>])

\* CTDopts.parse_args(args): the heap, the object, the files and the process
\* afterwards, the warnings issued, and how the call ends.
parse_args(h, self, files, p, args) ==
    LET base == [heap |-> h, self |-> self, files |-> files, p |-> p, warned |-> <<>>]
        Written(w) ==
            IF ~w.ok
            THEN [out |-> Raised(w.exc)] @@ [base EXCEPT !.self = w.self]
            ELSE [out |-> Exited(0)]
                 @@ [base EXCEPT
                       !.self = Printed(w.self, p,
                                   "Tool-describing %s written to current directory successfully. Exiting.",
                                   <<w.self.out_ctd_file.v>>),
                       !.files = w.files]
        Directed(pre, write_tool_ctd) ==
            IF ~pre.ok THEN [out |-> Exited(2)] @@ base
            ELSE IF write_tool_ctd # NoneV
            THEN Written(write_ctd(h,
                            [self EXCEPT !.out_ctd_file =
                                IF ~Truthy(write_tool_ctd) THEN StrV(self.name \o CtdSuffix)
                                ELSE write_tool_ctd.v[1]],
                            files))
            ELSE RegularCommandLine(h, self, files, p, pre.ns, pre.extras)
        PreParsed(pre) == Directed(pre, pre.ns[Dest(WriteToolCtd)])
    IN  PreParsed(ParseKnownArgs(PreParser, args))

(***************************************************************************)
(* The process.  A tool script constructs the CTDopts object, declares its *)
(* parameters, and calls parse_args (and finalize_log); the functions      *)
(* registered with atexit run when the process ends.  The files outlive    *)
(* the process.                                                            *)
(***************************************************************************)
\* The atexit handlers, each a call finalize_log(): n of them run in turn.
\* An exception of a handler is reported and the next handler runs.
RECURSIVE RunExitFuncs(_, _, _, _, _)
RunExitFuncs(h, self, files, p, n) ==
    LET Ran(r) == RunExitFuncs(h, r.self, r.files, p, n - 1)
    IN  IF n = 0 THEN [self |-> self, files |-> files]
        ELSE Ran(finalize_log(h, self, files, p, NoneV, NoneV, NoneV))

\* The process after it ended with the exit status code.
Ended(p, code) == [p EXCEPT !.status = "exited", !.exit_code = code]

\* The exit status of a call that does not return: that of SystemExit, or 1
\* for an exception nobody catches.
ExitStatus(out) == IF out.kind = "exit" THEN out.code ELSE 1

(***************************************************************************)
(* The declarations of the tools examined, and their command lines         *)
(***************************************************************************)
ToolName == <<"T">>
ToolVersion == <<"0", ".", "1">>

\* One declaration of a script: a call of add or of add_group.
DeclAdd(g, name, kwargs) == [op |-> "add", g |-> g, name |-> name, kwargs |-> kwargs]
DeclGroup(g, name) == [op |-> "add_group", g |-> g, name |-> name]

\* The heap after the declarations ds[i..] of a script, from the heap h.
RECURSIVE Declare(_, _, _)
Declare(h, ds, i) ==
    IF i > Len(ds) THEN h
    ELSE Declare(IF ds[i].op = "add"
                 THEN add(h, ds[i].g, ds[i].name, ds[i].kwargs).heap
                 ELSE add_group(h, ds[i].g, ds[i].name, <<>>).heap,
                 ds, i + 1)

\* The tools: (1) the parameters of example.py in small: an int with a
\* range, a flag, a required list of files; (2) a group with a float, and a
\* str with choices; (3) a str with a dash in its name and a required int;
\* (4) an int with choices.
Scripts ==
    << <<DeclAdd(1, <<"n">>, [type |-> "int", num_range |-> <<IntV(0), NoneV>>,
                              default |-> IntV(5)]),
         DeclAdd(1, <<"f">>, [type |-> "bool"]),
         DeclAdd(1, <<"l">>, [is_list |-> TRUE, required |-> TRUE, type |-> "str",
                              file_formats |-> << <<"f", "q">> >>])>>,
       <<DeclGroup(1, <<"g">>),
         DeclAdd(2, <<"x">>, [type |-> "float", default |-> FloatV(Dec(FALSE, 5, <<5>>))]),
         DeclAdd(1, <<"c">>, [type |-> "str", choices |-> ListV(<<StrV(<<"u">>), StrV(<<"v">>)>>),
                              default |-> StrV(<<"u">>)])>>,
       <<DeclAdd(1, <<"a", "-", "b">>, [type |-> "str", default |-> StrV(<<"u">>)]),
         DeclAdd(1, <<"r">>, [type |-> "int", required |-> TRUE])>>,
       <<DeclAdd(1, <<"k">>, [type |-> "int", choices |-> ListV(<<IntV(1), IntV(2)>>),
                              default |-> IntV(1)])>> >>

DeclaredHeap(s) == Declare(MainNodeHeap(ToolName), Scripts[s], 1)

\* The file a command line names.
FileT == <<"t">>

\* The directives of a command line.
DirectiveMenu ==
    { <<>>,
      <<WriteToolCtd>>,
      <<WriteToolCtd, FileT>>,
      <<InputCtd, FileT>>,
      <<WriteParamCtd, FileT>>,
      <<InputCtd, FileT, WriteParamCtd, FileT>>,
      <<WriteParamCtd, FileT, LogOutput>>,
      <<WriteParamCtd, FileT, LogOutput, LogStdStreams>>,
      <<InputCtd, FileT, WriteParamCtd, FileT, LogOutput, WriteToolCtd>>,
      <<LogOutput, LogStdStreams>> }

\* The parameter tokens of a command line, for each tool.
ParamMenu ==
    << { <<>>,
         << <<"-", "n">>, <<"2">> >>,
         << <<"-", "l">>, <<"a", ".", "f", "q">> >>,
         << <<"-", "l">>, <<"a", ".", "f", "q">>, <<"b">> >>,
         << <<"-", "f">>, <<"-", "l">>, <<"b">> >>,
         << <<"-", "n">>, <<"-", "5">>, <<"-", "l">>, <<"a", ".", "f", "q">> >>,
         << <<"-", "n">>, <<"2">>, <<"-", "n">>, <<"7">>, <<"-", "l">>, <<"b">> >>,
         << <<"-", "n">>, <<"x">>, <<"-", "l">>, <<"b">> >>,
         << <<"-", "l">> >>,
         << <<"-", "z">>, <<"-", "l">>, <<"b">> >> },
       { <<>>,
         << <<"-", "g", ":", "x">>, <<"2", ".", "5">> >>,
         << <<"-", "g", ":", "x">>,
            <<"0", ".", "1", "2", "3", "4", "5", "6", "7", "8", "9", "0", "1", "2", "3">> >>,
         << <<"-", "c">>, <<"v">> >>,
         << <<"-", "c">>, <<"w">> >>,
         << <<"-", "c">>, <<"v">>, <<"-", "g", ":", "x">>, <<"7">> >> },
       { <<>>,
         << <<"-", "r">>, <<"7">> >>,
         << <<"-", "a", "-", "b">>, <<"v">> >>,
         << <<"-", "a", "-", "b">>, <<"v">>, <<"-", "r">>, <<"7">> >> },
       { <<>>,
         << <<"-", "k">>, <<"2">> >>,
         << <<"-", "k">>, <<"3">> >> } >>

\* The directives that come before the parameter tokens in some command
\* lines (--write_tool_ctd takes the values that follow it).
FrontDirectives == { <<WriteToolCtd>>, <<WriteParamCtd, FileT>> }

\* The command lines of the tool s: parameter tokens and then directives,
\* or directives and then parameter tokens.
ArgLists(s) ==
    {params \o dirs : params \in ParamMenu[s], dirs \in DirectiveMenu}
    \cup {dirs \o params : params \in ParamMenu[s], dirs \in FrontDirectives}

\* The parse_args calls of one process, and the processes run in turn.
MaxCalls == 1
MaxRuns == 2

(***************************************************************************)
(* The tool process                                                        *)
(***************************************************************************)
\* No file yet.
NoFiles == [f \in {} |-> NoneV]

\* A process that runs the script s: nothing parsed, nothing registered.
NewProc(s, run) == [status |-> "running", exit_code |-> NoneV, captured |-> FALSE,
                    atexit |-> 0, calls |-> 0, script |-> s, run |-> run]

\* What a manual call of finalize_log passes.
FinalizeMenu ==
    { <<NoneV, NoneV, NoneV>>,
      <<StrV(<<"o">>), StrV(<<"e">>), IntV(0)>> }

Init ==
    \E s \in 1..Len(Scripts) :
        /\ heap = DeclaredHeap(s)
        /\ tool = CTDopts(ToolName, ToolVersion, <<>>)
        /\ fs = NoFiles
        /\ proc = NewProc(s, 1)
        /\ warnings = <<>>
        /\ last = [op |-> "init"]

\* The script calls parse_args(args).  A call that does not return ends the
\* script: the interpreter goes on to its exit handlers.
CallParseArgs(args) ==
    /\ proc.status = "running"
    /\ proc.calls < MaxCalls
    /\ \E r \in {parse_args(heap, tool, fs, proc, args)} :
           /\ heap' = r.heap
           /\ tool' = r.self
           /\ fs' = r.files
           /\ proc' = IF r.out.kind = "return"
                      THEN [r.p EXCEPT !.calls = @ + 1]
                      ELSE [r.p EXCEPT !.status = "exiting", !.exit_code = ExitStatus(r.out)]
           /\ warnings' = r.warned
           /\ last' = [op |-> "parse_args", args |-> args, out |-> r.out]

\* The script calls finalize_log(stdout, stderr, exit_status).
CallFinalizeLog(stdout, stderr, exit_status) ==
    /\ proc.status = "running"
    /\ last.op # "finalize_log"
    /\ \E r \in {finalize_log(heap, tool, fs, proc, stdout, stderr, exit_status)} :
           /\ tool' = r.self
           /\ fs' = r.files
           /\ proc' = IF r.ok THEN proc
                      ELSE [proc EXCEPT !.status = "exiting", !.exit_code = 1]
           /\ last' = [op |-> "finalize_log", args |-> <<stdout, stderr, exit_status>>,
                       out |-> IF r.ok THEN Returned(NoneV) ELSE Raised(r.exc)]
    /\ warnings' = <<>>
    /\ UNCHANGED heap

\* The script reaches its end.
ScriptEnd ==
    /\ proc.status = "running"
    /\ proc' = [proc EXCEPT !.status = "exiting", !.exit_code = 0]
    /\ last' = [op |-> "end"]
    /\ warnings' = <<>>
    /\ UNCHANGED <<heap, tool, fs>>

\* The interpreter runs the functions registered with atexit and ends.
AtExit ==
    /\ proc.status = "exiting"
    /\ \E r \in {RunExitFuncs(heap, tool, fs, proc, proc.atexit)} :
           /\ tool' = r.self
           /\ fs' = r.files
    /\ proc' = [proc EXCEPT !.status = "exited"]
    /\ last' = [op |-> "atexit"]
    /\ warnings' = <<>>
    /\ UNCHANGED heap

\* The tool is run again: a new process, the same declarations, the files
\* the earlier runs left.
NewProcess ==
    /\ proc.status = "exited"
    /\ proc.run < MaxRuns
    /\ heap' = DeclaredHeap(proc.script)
    /\ tool' = CTDopts(ToolName, ToolVersion, <<>>)
    /\ proc' = NewProc(proc.script, proc.run + 1)
    /\ last' = [op |-> "init"]
    /\ warnings' = <<>>
    /\ UNCHANGED fs

Next ==
    \/ \E args \in ArgLists(proc.script) : CallParseArgs(args)
    \/ \E a \in FinalizeMenu : CallFinalizeLog(a[1], a[2], a[3])
    \/ ScriptEnd
    \/ AtExit
    \/ NewProcess

Spec == Init /\ [][Next]_vars

(***************************************************************************)
(* Logging on its own: the script calls parse_args with --write_param_ctd  *)
(* and --log_output, then finalize_log any number of times, catching or    *)
(* not the exception of a call that fails; the exit handlers run last.     *)
(***************************************************************************)
\* A file in a directory that does not exist.
FileD == <<"d", "/", "t">>

\* The command lines of the tool s that enable logging.
LogArgLists(s) ==
    {params \o <<WriteParamCtd, f, LogOutput>> \o std :
        params \in ParamMenu[s], f \in {FileT, FileD},
        std \in {<<>>, <<LogStdStreams>>}}

\* The manual calls of finalize_log of one process.
MaxFinalize == 2

\* The finalize_log calls made so far, as last tells.
FinalizeCalls == IF last.op = "finalize_log" THEN last.n ELSE 0

\* The script calls finalize_log(stdout, stderr, exit_status); it goes on
\* after an exception when it catches it.
FinalizeLog(stdout, stderr, exit_status, caught) ==
    /\ proc.status = "running"
    /\ last.op \in {"parse_args", "finalize_log"}
    /\ FinalizeCalls < MaxFinalize
    /\ \E r \in {finalize_log(heap, tool, fs, proc, stdout, stderr, exit_status)} :
           /\ tool' = r.self
           /\ fs' = r.files
           /\ proc' = IF r.ok \/ caught THEN proc
                      ELSE [proc EXCEPT !.status = "exiting", !.exit_code = 1]
           /\ last' = [op |-> "finalize_log", args |-> <<stdout, stderr, exit_status>>,
                       out |-> IF r.ok THEN Returned(NoneV) ELSE Raised(r.exc),
                       n |-> FinalizeCalls + 1]
    /\ warnings' = <<>>
    /\ UNCHANGED heap

NextLog ==
    \/ \E args \in LogArgLists(proc.script) : CallParseArgs(args)
    \/ \E a \in FinalizeMenu, caught \in BOOLEAN : FinalizeLog(a[1], a[2], a[3], caught)
    \/ ScriptEnd
    \/ AtExit

SpecLog == Init /\ [][NextLog]_vars

(***************************************************************************)
(* Several calls on one object: the script calls parse_args again on the   *)
(* CTDopts object it has parsed with.                                      *)
(***************************************************************************)
\* The directives of these command lines.
CallsDirectives ==
    { <<>>,
      <<WriteToolCtd>>,
      <<WriteToolCtd, FileT>>,
      <<WriteParamCtd, FileT>>,
      <<WriteParamCtd, FileT, LogOutput>> }

CallsArgLists(s) == {params \o dirs : params \in ParamMenu[s], dirs \in CallsDirectives}

\* The parse_args calls of one process.
MaxParses == 2

\* The script calls parse_args(args), once more if it has called it.
ParseAgain(args) ==
    /\ proc.status = "running"
    /\ proc.calls < MaxParses
    /\ \E r \in {parse_args(heap, tool, fs, proc, args)} :
           /\ heap' = r.heap
           /\ tool' = r.self
           /\ fs' = r.files
           /\ proc' = IF r.out.kind = "return"
                      THEN [r.p EXCEPT !.calls = @ + 1]
                      ELSE [r.p EXCEPT !.status = "exiting", !.exit_code = ExitStatus(r.out)]
           /\ warnings' = r.warned
           /\ last' = [op |-> "parse_args", args |-> args, out |-> r.out]

NextCalls ==
    \/ \E args \in CallsArgLists(proc.script) : ParseAgain(args)
    \/ ScriptEnd
    \/ AtExit

SpecCalls == Init /\ [][NextCalls]_vars

(***************************************************************************)
(* The restriction checks on their own: an input is drawn, the function    *)
(* argparse_type returned is applied to it.                                *)
(***************************************************************************)
\* The bounds of the ranges lie in -RangeBound..RangeBound, the numbers
\* given one further out.
RangeBound == 2

Bounds == {NoneV} \cup {IntV(k) : k \in (0 - RangeBound)..RangeBound}

\* The values given: numerals, a numeral with a fraction, and a word.
RangeValues ==
    {StrV(IntToStr(k)) : k \in (0 - RangeBound - 1)..(RangeBound + 1)}
    \cup {StrV(<<"0", ".", "5">>), StrV(<<"x">>), StrV(<<>>)}

\* File names and extensions are strings over these characters.
NameChars == {".", "q", "z", "Q"}
MaxNameLen == 5
MaxFormats == 2

Extensions == { <<"q">>, <<"Q">>, <<"q", ".", "z">> }

Strings(chars, n) == UNION {[1..k -> chars] : k \in 0..n}

RestrInputs ==
    {[op |-> "input", f |-> "is_in_range",
      self |-> NumericRange(<<"n">>, ty, lo, hi), value |-> v] :
        ty \in {"int", "float"}, lo \in Bounds, hi \in Bounds, v \in RangeValues}
    \cup {[op |-> "input", f |-> "legal_formats",
           self |-> FileFormat(<<"l">>, fmts), value |-> name] :
             fmts \in Strings(Extensions, MaxFormats), name \in Strings(NameChars, MaxNameLen)}

InitRestr ==
    /\ heap = MainNodeHeap(ToolName)
    /\ tool = CTDopts(ToolName, ToolVersion, <<>>)
    /\ fs = NoFiles
    /\ proc = NewProc(0, 1)
    /\ warnings = <<>>
    /\ last \in RestrInputs

\* The parser applies the function of a numeric range to a value.
CallIsInRange ==
    /\ last.op = "input"
    /\ last.f = "is_in_range"
    /\ \E r \in {is_in_range(last.self, last.value)} :
           /\ last' = [op |-> "is_in_range", self |-> last.self, value |-> last.value,
                       res |-> r.res]
           /\ warnings' = r.warned
    /\ UNCHANGED <<heap, tool, fs, proc>>

\* The parser applies the function of a file format list to a file name.
CallLegalFormats ==
    /\ last.op = "input"
    /\ last.f = "legal_formats"
    /\ \E r \in {legal_formats(last.self, last.value)} :
           /\ last' = [op |-> "legal_formats", self |-> last.self, value |-> last.value,
                       res |-> r.res]
           /\ warnings' = r.warned
    /\ UNCHANGED <<heap, tool, fs, proc>>

NextRestr == CallIsInRange \/ CallLegalFormats

SpecRestr == InitRestr /\ [][NextRestr]_vars

(***************************************************************************)
(* Declarations on their own: a script builds a tree with add and          *)
(* add_group.                                                              *)
(***************************************************************************)
\* The objects of the heap: the main node and those declared.
MaxObjects == 3

Names == { <<"a">>, <<"b">> }

Types == {"str", "int", "bool"}

\* A default a script may give for a parameter of a type: one the type
\* accepts, or one int and float cannot cast.
DefaultOf(type, given, as_list) ==
    LET v == IF given = "uncastable" THEN StrV(<<"x">>)
             ELSE CASE type = "str" -> StrV(<<"u">>)
                    [] type = "int" -> IntV(1)
                    [] type = "bool" -> BoolV(TRUE)
    IN  IF as_list THEN ListV(<<v>>) ELSE v

\* The keyword arguments of a declaration; "absent" leaves the keyword out.
Kw(type, required, default, is_list) ==
    [type |-> type]
    @@ (IF required = "absent" THEN <<>> ELSE [required |-> required = "true"])
    @@ (IF default = "absent" THEN <<>>
        ELSE [default |-> DefaultOf(type, default, is_list = "true")])
    @@ (IF is_list = "absent" THEN <<>> ELSE [is_list |-> is_list = "true"])

KwMenu ==
    {Kw(t, r, d, l) : t \in Types, r \in {"absent", "true", "false"},
                      d \in {"absent", "given", "uncastable"}, l \in {"absent", "true"}}

Groups(h) == {g \in 1..Len(h) : h[g].kind = "group"}

InitDecl ==
    /\ heap = MainNodeHeap(ToolName)
    /\ tool = CTDopts(ToolName, ToolVersion, <<>>)
    /\ fs = NoFiles
    /\ proc = NewProc(0, 1)
    /\ warnings = <<>>
    /\ last = [op |-> "init"]

\* The script calls g.add(name, **kwargs); an exception ends it.
Add(g, name, kwargs) ==
    /\ Len(heap) < MaxObjects
    /\ last.op # "raise"
    /\ \E r \in {add(heap, g, name, kwargs)} :
           /\ heap' = r.heap
           /\ warnings' = r.warned
           /\ last' = [op |-> IF r.res.ok THEN "add" ELSE "raise",
                       g |-> g, name |-> name, kwargs |-> kwargs, res |-> r.res]
    /\ UNCHANGED <<tool, fs, proc>>

\* The script calls g.add_group(name).
AddGroup(g, name) ==
    /\ Len(heap) < MaxObjects
    /\ last.op # "raise"
    /\ \E r \in {add_group(heap, g, name, <<>>)} :
           /\ heap' = r.heap
           /\ warnings' = r.warned
           /\ last' = [op |-> "add_group", g |-> g, name |-> name, res |-> r.res]
    /\ UNCHANGED <<tool, fs, proc>>

NextDecl ==
    \/ \E g \in Groups(heap), name \in Names, kwargs \in KwMenu : Add(g, name, kwargs)
    \/ \E g \in Groups(heap), name \in Names : AddGroup(g, name)

SpecDecl == InitDecl /\ [][NextDecl]_vars

(***************************************************************************)
(* Trees on their own: a script declares str parameters and groups, under  *)
(* names that may hold a colon, and stores flat tables of call values.     *)
(***************************************************************************)
\* The objects of the heap: the main node and those declared.
MaxNodes == 4

\* The store_call_value calls on the root.
MaxStores == 1

TreeNames == { <<"a">>, <<"b">>, <<"a", ":", "b">> }

TreeKw == [type |-> "str", default |-> StrV(<<"u">>)]

\* The flat tables stored: some lineage names, each with a value.
TreeTables ==
    { <<>>,
      [k \in { <<"a">> } |-> StrV(<<"s">>)],
      [k \in { <<"a", ":", "b">> } |-> StrV(<<"s">>)],
      [k \in { <<"b">>, <<"a", ":", "a">> } |-> StrV(<<"v">>)],
      [k \in { <<"a">>, <<"b", ":", "a">>, <<"a", ":", "b", ":", "a">> } |-> StrV(<<"v">>)] }

\* The script calls g.add(name, type=str, default='u').
TreeAdd(g, name) ==
    /\ Len(heap) < MaxNodes
    /\ \E r \in {add(heap, g, name, TreeKw)} :
           /\ heap' = r.heap
           /\ warnings' = r.warned
           /\ last' = [op |-> "add", g |-> g, name |-> name, res |-> r.res]
    /\ UNCHANGED <<tool, fs, proc>>

\* The script calls g.add_group(name).
TreeAddGroup(g, name) ==
    /\ Len(heap) < MaxNodes
    /\ \E r \in {add_group(heap, g, name, <<>>)} :
           /\ heap' = r.heap
           /\ warnings' = r.warned
           /\ last' = [op |-> "add_group", g |-> g, name |-> name, res |-> r.res]
    /\ UNCHANGED <<tool, fs, proc>>

\* main_node.store_call_value(call_dict), as parse_args calls it.
TreeStore(call_dict) ==
    /\ proc.calls < MaxStores
    /\ heap' = store_call_value(heap, tool.main_node, call_dict)
    /\ proc' = [proc EXCEPT !.calls = @ + 1]
    /\ warnings' = <<>>
    /\ last' = [op |-> "store_call_value", call_dict |-> call_dict]
    /\ UNCHANGED <<tool, fs>>

NextTree ==
    \/ \E g \in Groups(heap), name \in TreeNames : TreeAdd(g, name)
    \/ \E g \in Groups(heap), name \in TreeNames : TreeAddGroup(g, name)
    \/ \E call_dict \in TreeTables : TreeStore(call_dict)

SpecTree == InitDecl /\ [][NextTree]_vars

(***************************************************************************)
(* Properties of the restriction checks                                    *)
(***************************************************************************)
\* The number the range check compares: the value cast to the range's type.
RangeCast == PyCast(last.self.n_type, last.value)

BelowMin == last.self.n_min # NoneV /\ NumLess(RangeCast.v, last.self.n_min)
AboveMax == last.self.n_max # NoneV /\ NumLess(last.self.n_max, RangeCast.v)

\* The warning for a bound: it names the parameter, the value and the bound.
RangeWarning(fmt, bound) ==
    Warning(fmt, <<last.self.param_name, PyStr(RangeCast.v), PyStr(bound)>>)

IsSuffix(t, s) ==
    /\ Len(t) <= Len(s)
    /\ \A k \in 1..Len(t) : s[Len(s) - Len(t) + k] = t[k]

\* C7: the file extension check returns the file name unchanged; it issues
\* a warning (one) exactly when the file name ends with none of the strings
\* "." + ext for ext in the list, compared literally and case-sensitively,
\* so that an extension of several parts matches; and none otherwise.
C7_FormatAdvisory ==
    last.op = "legal_formats" =>
        /\ last.res = Ret(StrV(last.value))
        /\ Len(warnings) =
              (IF \E i \in 1..Len(last.self.formats) :
                     IsSuffix(<<".">> \o last.self.formats[i], last.value)
               THEN 0 ELSE 1)
        /\ \A i \in 1..Len(warnings) :
              warnings[i].args[1] = last.self.param_name /\ warnings[i].args[3] = last.value

\* A name with the two-part extension q.z passes a list that allows q.z.
C7_Witness ==
    /\ last.op = "legal_formats"
    /\ last.self.formats = << <<"Q">>, <<"q", ".", "z">> >>
    /\ last.value = <<"z", ".", "q", ".", "z">>
    /\ warnings = <<>>

(***************************************************************************)
(* Properties of the declarations                                          *)
(***************************************************************************)
\* The items of the heap.
Items(h) == {id \in 1..Len(h) : h[id].kind = "item"}

\* What the latest add declared.
DeclaredType == Get(last.kwargs, "type", "str")
DeclaredRequired == Get(last.kwargs, "required", FALSE)
DeclaredList == Get(last.kwargs, "is_list", FALSE)
HasDeclaredDefault == "default" \in DOMAIN last.kwargs

\* C4: the construction of an item fails when the item is required and has
\* a default, and when it is optional and has no default, required and
\* default being the item's attributes when they are validated: those
\* declared, but for a boolean flag, which is made optional with default
\* false whatever was declared.  So every item of a tree is required exactly
\* when it has no default, and every boolean item is optional, is no list
\* and has default false.
C4_DeclarationInvariant ==
    /\ \A id \in Items(heap) :
          /\ heap[id].required <=> heap[id].default = NoneV
          /\ heap[id].type = "bool" =>
                /\ ~heap[id].required
                /\ heap[id].is_list = FALSE
                /\ heap[id].default = BoolV(FALSE)
    /\ last.op \in {"add", "raise"} =>
          /\ (DeclaredType # "bool" /\ DeclaredRequired /\ HasDeclaredDefault)
                => last.op = "raise"
          /\ (DeclaredType # "bool" /\ ~DeclaredRequired /\ ~HasDeclaredDefault)
                => last.op = "raise"
          /\ (DeclaredType = "bool" /\ DeclaredList = FALSE) => last.op = "add"

\* A tree holds an item, and the declaration of a required int with a
\* default has failed.
C4_Witness ==
    /\ last.op = "raise"
    /\ last.res = Raise("AssertionError: Required field has default value")
    /\ DeclaredType = "int"
    /\ Items(heap) # {}

StoredOrDefault(item) ==
    IF item.call_value = Unset THEN item.default ELSE item.call_value

\* The flag under which an item is declared to the parser.
Flag(h, id) == <<"-">> \o param_commandline_name(h, id)

\* A token that reads as a flag: a dash and then no digit.
IsFlagToken(tok) == Len(tok) > 1 /\ tok[1] = "-" /\ ~IsDigit(tok[2])

Present(tok, args) == \E i \in 1..Len(args) : args[i] = tok

LastIndex(tok, args) ==
    CHOOSE i \in 1..Len(args) : args[i] = tok /\ \A j \in (i + 1)..Len(args) : args[j] # tok

\* The value tokens that follow the token at i.
ValuesAfter(args, i) ==
    LET stop == CHOOSE j \in i..Len(args) :
                   /\ \A k \in (i + 1)..j : ~IsFlagToken(args[k])
                   /\ j = Len(args) \/ IsFlagToken(args[j + 1])
    IN  SubSeq(args, i + 1, stop)

\* The value of an item that a sequence of strings stands for.
ValueOf(item, strings) ==
    IF item.type = "bool" THEN BoolV(TRUE)
    ELSE IF item.is_list
    THEN ListV([i \in 1..Len(strings) |-> PyCast(item.type, StrV(strings[i])).v])
    ELSE PyCast(item.type, StrV(strings[1])).v

\* The table of the document the command line args names as its input,
\* read from the files, empty when none is named.
InputTable(files, args) ==
    IF Present(InputCtd, args) /\ args[LastIndex(InputCtd, args) + 1] \in DOMAIN files
    THEN read_ini(files, args[LastIndex(InputCtd, args) + 1]).ini_params
    ELSE <<>>

InDocument(table, flag) == HasKey(table, flag) /\ Len(Lookup(table, flag)) > 0

\* The command line gives the item a value: its flag alone for a flag,
\* its flag and a value after it otherwise.
OnCommandLine(h, id, args) ==
    /\ Present(Flag(h, id), args)
    /\ h[id].type = "bool" \/ ValuesAfter(args, LastIndex(Flag(h, id), args)) # <<>>

Supplied(h, id, args, files) ==
    OnCommandLine(h, id, args) \/ InDocument(InputTable(files, args), Flag(h, id))

\* The value precedence gives an item: command line, then document, then
\* default.
Expected(h, id, args, files) ==
    IF Present(Flag(h, id), args)
    THEN ValueOf(h[id], ValuesAfter(args, LastIndex(Flag(h, id), args)))
    ELSE IF InDocument(InputTable(files, args), Flag(h, id))
    THEN ValueOf(h[id], [i \in 1..Len(Lookup(InputTable(files, args), Flag(h, id))) |->
                            Lookup(InputTable(files, args), Flag(h, id))[i].v])
    ELSE h[id].default

\* The flat table shows the value for the item: a list by the strings of
\* its elements, a scalar by its string, a flag by an entry when true.
TableShows(table, h, id, value) ==
    IF h[id].type = "bool"
    THEN IF Truthy(value)
         THEN HasKey(table, Flag(h, id)) /\ Lookup(table, Flag(h, id)) = <<BoolV(TRUE)>>
         ELSE ~HasKey(table, Flag(h, id))
    ELSE /\ HasKey(table, Flag(h, id))
         /\ Lookup(table, Flag(h, id)) =
               (IF h[id].is_list
                THEN IF value = NoneV THEN <<>>
                     ELSE [i \in 1..Len(value.v) |-> StrV(PyStr(value.v[i]))]
                ELSE <<StrV(IF value = NoneV THEN <<>> ELSE PyStr(value))>>)

\* The flat table loaded from a document.
TableOf(document) == read_ini([f \in {FileT} |-> document], FileT).ini_params

\* The flat table gives the value back: a list element by element, a
\* scalar as the one element, a flag by an entry exactly when true; each
\* string read as the item's type.
TableGivesBack(table, h, id, value) ==
    IF h[id].type = "bool"
    THEN HasKey(table, Flag(h, id)) <=> Truthy(value)
    ELSE /\ HasKey(table, Flag(h, id))
         /\ IF h[id].is_list
            THEN /\ Len(Lookup(table, Flag(h, id))) = Len(value.v)
                 /\ \A i \in 1..Len(value.v) :
                       PyCast(h[id].type, Lookup(table, Flag(h, id))[i]) = Ret(value.v[i])
            ELSE /\ Len(Lookup(table, Flag(h, id))) = 1
                 /\ PyCast(h[id].type, Lookup(table, Flag(h, id))[1]) = Ret(value)

\* Serializing the tree h with its values gives a document, and loading
\* the document gives the values back.
RoundTrips(h) ==
    LET Loaded(gen) ==
            /\ gen.ok
            /\ \A id \in Items(h) :
                  TableGivesBack(TableOf(ToolDocument(gen.self)), h, id, StoredOrDefault(h[id]))
    IN  Loaded(generate_ctd_tree(h, CTDopts(ToolName, ToolVersion, <<>>), FALSE))

\* C1, as stated: for every declared tree and every assignment of legal
\* call values to its items (those a successful parse_args stored), loading
\* the document that serializing the tree with the values produces yields a
\* flat table equal to the values, keyed by dash and lineage name: a list
\* by its elements in order, a scalar that is no flag by a one-element
\* sequence, a flag by an entry exactly when true.
C1_AsStated ==
    (last.op = "parse_args" /\ last.out.kind = "return") => RoundTrips(heap)

\* C2, as stated: after parse_args, the stored call value of every declared
\* parameter is the value given on the literal command line if the
\* parameter appears there, else the value of the loaded document if it has
\* one there, else the declared default.
C2_AsStated ==
    [][(last'.op = "parse_args" /\ last'.out.kind = "return")
       => \A id \in Items(heap') :
             heap'[id].call_value = Expected(heap, id, last'.args, fs)]_vars

\* C3, as stated: parse_args fails, with a non-zero exit status and no call
\* value stored, exactly when some required parameter gets no value from
\* the loaded document or the command line; otherwise it succeeds and every
\* optional parameter that was not supplied has its declared default as
\* stored call value.
C3_AsStated ==
    [][(last'.op = "parse_args" /\ ~Present(WriteToolCtd, last'.args))
       => /\ last'.out.kind # "return"
                <=> \E id \in Items(heap) :
                       heap[id].required /\ ~Supplied(heap, id, last'.args, fs)
          /\ last'.out.kind # "return" => (proc'.exit_code # 0 /\ heap' = heap)
          /\ last'.out.kind = "return"
                => \A id \in Items(heap) :
                      (~heap[id].required /\ ~Supplied(heap, id, last'.args, fs))
                         => heap'[id].call_value = heap[id].default]_vars

\* The blocks of tokens of the elements of a document, in document order:
\* the flag and the values of an element that has values, the flag alone
\* for a flag that is true, nothing for an element without values.
RECURSIVE Blocks(_, _, _)
Blocks(children, i, prefix) ==
    IF i > Len(children) THEN <<>>
    ELSE (CASE children[i].tag = "NODE" ->
                  Blocks(children[i].children, 1,
                         prefix \o children[i].attrib.name \o <<":">>)
            [] children[i].tag = "ITEMLIST" ->
                  IF Len(children[i].children) = 0 THEN <<>>
                  ELSE <<prefix \o children[i].attrib.name>>
                       \o [k \in 1..Len(children[i].children) |->
                              children[i].children[k].attrib.value]
            [] children[i].tag = "ITEM" ->
                  IF children[i].attrib.type = "boolean"
                  THEN IF children[i].attrib.value = TrueString
                       THEN <<prefix \o children[i].attrib.name>>
                       ELSE <<>>
                  ELSE <<prefix \o children[i].attrib.name, children[i].attrib.value>>)
         \o Blocks(children, i + 1, prefix)

\* The parameters of a tool document: the node inside the node of
\* PARAMETERS.
ParametersOf(document) == Find(Find(Find(document, "PARAMETERS"), "NODE"), "NODE")

\* The command lines that give the required list -l and name the input t.
ListSupplied ==
    { << <<"-", "l">>, <<"a", ".", "f", "q">>, InputCtd, FileT >>,
      << <<"-", "l">>, <<"a", ".", "f", "q">>, <<"b">>, InputCtd, FileT >> }

\* C8: the token list of a loaded document is the concatenation, in
\* document order, of one block for each parameter with at least one
\* value: the flag and then the values in order, the flag alone for a flag
\* that is true; a parameter without values and a flag that is false give
\* no token.  So a required list that is empty in the document and given
\* on the command line parses.
C8_InvocationTranslation ==
    [][(last'.op = "parse_args" /\ Present(InputCtd, last'.args) /\ FileT \in DOMAIN fs
        /\ ~Present(WriteToolCtd, last'.args))
       => /\ read_ini(fs, FileT).command_line = Blocks(ParametersOf(fs[FileT]).children, 1, <<"-">>)
          /\ tool'.ini_params = [t |-> "dict", v |-> read_ini(fs, FileT).ini_params]
          /\ (/\ last'.args \in ListSupplied
              /\ HasKey(read_ini(fs, FileT).ini_params, <<"-", "l">>)
              /\ Lookup(read_ini(fs, FileT).ini_params, <<"-", "l">>) = <<>>)
                => (/\ last'.out.kind = "return"
                    /\ \A id \in Items(heap') :
                          heap'[id].name = <<"l">>
                             => heap'[id].call_value
                                   = ValueOf(heap[id], ValuesAfter(last'.args, 1)))]_vars

\* The tool descriptor was loaded, its required list empty, and the command
\* line that gives the list has parsed.
C8_Witness ==
    /\ last.op = "parse_args"
    /\ last.args \in ListSupplied
    /\ last.out.kind = "return"
    /\ tool.ini_params # Unset
    /\ HasKey(tool.ini_params.v, <<"-", "l">>)
    /\ Lookup(tool.ini_params.v, <<"-", "l">>) = <<>>
    /\ HasKey(tool.ini_params.v, <<"-", "n">>)

\* The file --write_tool_ctd names: the value that follows it, or the name
\* of the tool with .ctd.
ToolCtdFile(args) ==
    IF LastIndex(WriteToolCtd, args) < Len(args)
       /\ ~IsFlagToken(args[LastIndex(WriteToolCtd, args) + 1])
    THEN args[LastIndex(WriteToolCtd, args) + 1]
    ELSE ToolName \o CtdSuffix

\* C9, as stated: whenever --write_tool_ctd is among the arguments,
\* whatever accompanies it, parse_args writes the tool descriptor (every
\* item with its declared default) to the file named, or to <tool
\* name>.ctd, and ends the process with status 0, without loading an input
\* document, without storing a call value and without capturing the
\* streams.
C9_AsStated ==
    [][(last'.op = "parse_args" /\ Present(WriteToolCtd, last'.args))
       => /\ last'.out = Exited(0)
          /\ proc'.exit_code = 0
          /\ ToolCtdFile(last'.args) \in DOMAIN fs'
          /\ \A id \in Items(heap) :
                TableShows(TableOf(fs'[ToolCtdFile(last'.args)]), heap, id, heap[id].default)
          /\ heap' = heap
          /\ tool'.ini_params = tool.ini_params
          /\ proc'.captured = proc.captured
          /\ proc'.atexit = proc.atexit]_vars

\* The file --write_param_ctd names.
ParamCtdFile(args) == args[LastIndex(WriteParamCtd, args) + 1]

\* C10, as stated: whenever parse_args succeeds with --write_param_ctd
\* FILE, with or without --log_output and --log_std_streams, a descriptor
\* is written to FILE in which every item value is the item's stored call
\* value, or its default.
C10_AsStated ==
    [][(last'.op = "parse_args" /\ last'.out.kind = "return"
        /\ Present(WriteParamCtd, last'.args))
       => /\ ParamCtdFile(last'.args) \in DOMAIN fs'
          /\ \A id \in Items(heap') :
                TableShows(TableOf(fs'[ParamCtdFile(last'.args)]), heap', id,
                           StoredOrDefault(heap'[id]))]_vars

\* C10, amended: when parse_args succeeds with --write_param_ctd FILE and
\* without --log_output, it writes to FILE a descriptor in which every item
\* value is the string of the item's stored call value, or of its default.
\* With --log_output it writes no file: it generates the descriptor with
\* these item values and the log record, names FILE as its file, and with
\* --log_std_streams registers finalize_log to run at exit.  The generated
\* descriptor is written to its file by the first finalize_log that runs.
C10_SaveValues ==
    [][/\ (last'.op = "parse_args" /\ last'.out.kind = "return"
           /\ Present(WriteParamCtd, last'.args))
          => IF ~Present(LogOutput, last'.args)
             THEN /\ ParamCtdFile(last'.args) \in DOMAIN fs'
                  /\ \A id \in Items(heap') :
                        TableShows(TableOf(fs'[ParamCtdFile(last'.args)]), heap', id,
                                   StoredOrDefault(heap'[id]))
                  /\ \A f \in DOMAIN fs : f # ParamCtdFile(last'.args) => fs'[f] = fs[f]
             ELSE /\ fs' = fs
                  /\ tool'.out_ctd_file = StrV(ParamCtdFile(last'.args))
                  /\ tool'.tool_xml_node.with_logging
                  /\ Find(ToolDocument(tool'), "logs") # NoneV
                  /\ \A id \in Items(heap') :
                        TableShows(TableOf(ToolDocument(tool')), heap', id,
                                   StoredOrDefault(heap'[id]))
                  /\ proc'.atexit = proc.atexit
                        + (IF Present(LogStdStreams, last'.args) THEN 1 ELSE 0)
       /\ (last'.op = "finalize_log" /\ last'.out.kind = "return"
           /\ tool.already_finalized = Unset)
          => /\ tool.out_ctd_file.v \in DOMAIN fs'
             /\ fs'[tool.out_ctd_file.v] = ToolDocument(tool')
             /\ tool'.already_finalized # Unset
       /\ (last'.op = "atexit" /\ proc.atexit > 0 /\ tool.already_finalized = Unset)
          => /\ tool.out_ctd_file.v \in DOMAIN fs'
             /\ fs'[tool.out_ctd_file.v] = ToolDocument(tool')]_vars

\* parse_args has returned with --write_param_ctd t and --log_output, a
\* call value differs from its default, and no file t exists.
C10_Witness ==
    /\ last.op = "parse_args"
    /\ last.out.kind = "return"
    /\ Present(WriteParamCtd, last.args)
    /\ Present(LogOutput, last.args)
    /\ FileT \notin DOMAIN fs
    /\ \E id \in Items(heap) : heap[id].call_value \notin {Unset, heap[id].default}

(***************************************************************************)
(* Properties of finalize_log                                              *)
(***************************************************************************)
\* The children of a log record with the tag.
Logged(log_node, tag) == {i \in 1..Len(log_node.children) : log_node.children[i].tag = tag}

\* C11, as stated: over any sequence of finalize_log calls on a tool with
\* logging enabled (a manual call and then the call at exit, repeated manual
\* calls, also after a call that failed part-way) the log record is
\* finalized once: it never holds more than one executionErrors and one
\* executionMessage child, and a call after the one that wrote the
\* descriptor changes neither the record nor the file.
C11_AsStated ==
    [][/\ tool'.log_node # Unset
          => /\ Cardinality(Logged(tool'.log_node, "executionErrors")) <= 1
             /\ Cardinality(Logged(tool'.log_node, "executionMessage")) <= 1
       /\ (last'.op \in {"finalize_log", "atexit"} /\ tool.already_finalized # Unset)
          => (tool' = tool /\ fs' = fs)]_vars

(***************************************************************************)
(* Properties of the lineage name                                          *)
(***************************************************************************)
\* The names load reconstructs from the document that serializing the
\* tree h produces: the keys of the flat table.
LoadedNames(h) ==
    LET Keys(table) == {table[i][1] : i \in 1..Len(table)}
        Loaded(gen) == IF gen.ok THEN Keys(TableOf(ToolDocument(gen.self))) ELSE {}
    IN  Loaded(generate_ctd_tree(h, CTDopts(ToolName, ToolVersion, <<>>), FALSE))

\* Serializing the tree h produces a document.
Serializes(h) == generate_ctd_tree(h, CTDopts(ToolName, ToolVersion, <<>>), FALSE).ok

C13_AsStated ==
    [][(/\ last'.op = "parse_args"
        /\ Present(WriteToolCtd, last'.args)
        /\ last'.out = Exited(0))
       => /\ ToolCtdFile(last'.args) \in DOMAIN fs'
          /\ \A id \in Items(heap) :
                TableShows(TableOf(fs'[ToolCtdFile(last'.args)]), heap, id,
                           heap[id].default)]_vars

(***************************************************************************)
(* Properties of the trees                                                 *)
(***************************************************************************)
\* The names of the children of the group g, in the order it keeps them.
ChildNames(h, g) == [i \in 1..Len(h[g].arguments) |-> h[g].arguments[i][1]]

\* The names of the child elements of the element serialized for g.
SerializedNames(h, g) ==
    [i \in 1..Len(xml_node(h, g).v.children) |-> xml_node(h, g).v.children[i].attrib.name]

Redeclared == \E i \in 1..Len(heap[last'.g].arguments) : heap[last'.g].arguments[i][1] = last'.name

\* C14: every add and add_group on a group succeeds; afterwards the group
\* holds one child per distinct name, the child of the name just declared
\* being the new object and the other children those it held; the names
\* keep the order of their first declaration, in the group and in its
\* serialization; and a warning is issued exactly when the name was
\* declared before (item over item, group over item, item over group).
C14_Redeclaration ==
    [][last'.op \in {"add", "add_group"}
       => /\ last'.res.ok
          /\ Len(heap') = Len(heap) + 1
          /\ heap'[Len(heap')].kind = (IF last'.op = "add" THEN "item" ELSE "group")
          /\ heap'[Len(heap')].name = last'.name
          /\ heap'[Len(heap')].parent = last'.g
          /\ \A id \in 1..Len(heap) : id # last'.g => heap'[id] = heap[id]
          /\ ChildNames(heap', last'.g)
                = (IF Redeclared THEN ChildNames(heap, last'.g)
                   ELSE Append(ChildNames(heap, last'.g), last'.name))
          /\ \A i \in 1..Len(heap'[last'.g].arguments) :
                heap'[last'.g].arguments[i][2]
                   = (IF heap'[last'.g].arguments[i][1] = last'.name THEN Len(heap')
                      ELSE heap[last'.g].arguments[i][2])
          /\ \A i, j \in 1..Len(heap'[last'.g].arguments) :
                ChildNames(heap', last'.g)[i] = ChildNames(heap', last'.g)[j] => i = j
          /\ xml_node(heap', last'.g).ok
          /\ SerializedNames(heap', last'.g) = ChildNames(heap', last'.g)
          /\ warnings' = (IF Redeclared THEN <<DuplicateWarning>> ELSE <<>>)]_vars

\* A group has replaced the item first declared of two children: it stands
\* first, before the other child, and the warning was issued.
C14_Witness ==
    /\ last.op = "add_group"
    /\ Len(heap) = 4
    /\ Len(heap[last.g].arguments) = 2
    /\ heap[last.g].arguments[1] = <<last.name, 4>>
    /\ heap[2].kind = "item" /\ heap[2].name = last.name /\ heap[2].parent = last.g
    /\ warnings = <<DuplicateWarning>>

\* The items of the tree: those reached from the root.
RECURSIVE Below(_, _)
Below(h, id) ==
    IF h[id].kind = "item" THEN {id}
    ELSE UNION {Below(h, h[id].arguments[i][2]) : i \in 1..Len(h[id].arguments)}

TreeItems(h) == Below(h, 1)

\* The names from the object id up to the root, the root left out, joined
\* by colons.
RECURSIVE Lineage(_, _)
Lineage(h, id) ==
    IF h[id].parent = 1 THEN h[id].name
    ELSE Lineage(h, h[id].parent) \o <<":">> \o h[id].name

\* C15: store_call_value on the root with a flat table sets the call value
\* of exactly the items of the tree, at any depth, whose lineage name is a
\* key of the table, to the value of the key; it leaves alone the call
\* value of every other item, every other attribute of every item, and
\* every group; and storing the same table again changes nothing.
C15_StoreFrame ==
    [][last'.op = "store_call_value"
       => /\ Len(heap') = Len(heap)
          /\ \A id \in 1..Len(heap) :
                IF id \in TreeItems(heap) /\ Lineage(heap, id) \in DOMAIN last'.call_dict
                THEN heap'[id] = [heap[id] EXCEPT
                                     !.call_value = last'.call_dict[Lineage(heap, id)]]
                ELSE heap'[id] = heap[id]
          /\ store_call_value(heap', tool.main_node, last'.call_dict) = heap']_vars

\* A table with the key a:b was stored on a tree whose group a holds the
\* item b and whose root holds an item besides: the item in the group has
\* the value, the item of the root has none.
C15_Witness ==
    /\ last.op = "store_call_value"
    /\ DOMAIN last.call_dict = { <<"a", ":", "b">> }
    /\ \E id \in TreeItems(heap) :
          /\ heap[id].parent # 1
          /\ Lineage(heap, id) = <<"a", ":", "b">>
          /\ heap[id].call_value = StrV(<<"s">>)
    /\ \E id \in TreeItems(heap) :
          /\ heap[id].parent = 1
          /\ heap[id].call_value = Unset

\* C16, as stated: in every tree built by add and add_group, names being
\* arbitrary strings, any two distinct items have distinct lineage names:
\* no two are declared to the parser under the same flag, and storing a
\* table with the lineage name of one gives the value to no other.
C16_AsStated ==
    \A i, j \in TreeItems(heap) :
        i # j
           => /\ Lineage(heap, i) # Lineage(heap, j)
              /\ append_argument(heap, i).option_string
                    # append_argument(heap, j).option_string
              /\ store_call_value(heap, tool.main_node,
                    [k \in {Lineage(heap, i)} |-> StrV(<<"w">>)])[j].call_value
                    # StrV(<<"w">>)

====
